---- MODULE Spec2Model ----
(***************************************************************************)
(* Model of the Mojito landing page: App composes the sections, Navbar     *)
(* renders the configured links and registers a scroll-triggered           *)
(* background tween, Hero splits its title, registers its scroll           *)
(* timelines and waits for the video's loadedmetadata event.               *)
(*                                                                         *)
(* React, GSAP and the browser are the environment: a component's render,  *)
(* its useGSAP callback, a scroll, a resize, an animation frame and the    *)
(* media element's events are the steps of the machine.                    *)
(***************************************************************************)
EXTENDS Integers, Sequences, FiniteSets, TLC

VARIABLES
    navLinks,        \* constants/index.js navLinks, read-only configuration
    appTree,         \* children of <main> returned by the last render of App
    navMounted,      \* Navbar is mounted
    navItems,        \* the <li> elements Navbar rendered
    navRenders,      \* times the mounted Navbar has been rendered
    navTimelines,    \* timelines recorded in Navbar's gsap context
    navStyle,        \* inline style of the <nav> element
    scrollY,         \* window scroll position
    heroPhase,       \* "unmounted" | "rendered" (DOM exists) | "ready" (useGSAP ran)
    width,           \* viewport width in px
    isMobile,        \* useMediaQuery result of the latest Hero render
    closureIsMobile, \* isMobile as captured by the render whose effect runs
    titleDom,        \* content of <h1 class="title">
    heroTweens,      \* standalone entrance tweens in Hero's gsap context
    heroTimelines,   \* timelines in Hero's gsap context
    video,           \* the <video> element of the mounted Hero
    videoRef,        \* videoRef.current
    orphans,         \* detached <video> elements whose handler is still to fire
    uncaught         \* an exception escaped an event handler

vars == <<navLinks, appTree, navMounted, navItems, navRenders, navTimelines, navStyle, scrollY,
          heroPhase, width, isMobile, closureIsMobile, titleDom, heroTweens,
          heroTimelines, video, videoRef, orphans, uncaught>>

navVars == <<navMounted, navItems, navRenders, navTimelines, navStyle>>
heroVars == <<heroPhase, isMobile, closureIsMobile, titleDom, heroTweens,
              heroTimelines, video, videoRef, orphans, uncaught>>

---------------------------------------------------------------------------
(* Bounds of the model *)

MaxLinks == 2        \* longest configured navLinks list
MaxScroll == 2       \* scroll positions 0..MaxScroll
NavHeight == 1       \* scroll position at which the bottom of <nav> meets the viewport top
TweenSteps == 2      \* animation frames the 1s nav tween takes
MaxOrphans == 1      \* detached video elements tracked at once
MaxRenders == 2      \* renders of one mounted Navbar

(* Program constants *)

MobileMaxWidth == 767
NavDuration == 1
RightLeafY == 200
ArrowY == 100
LeftLeafY == -200

Widths == {MobileMaxWidth, MobileMaxWidth + 1, 1024}
Durations == {8, 12}

---------------------------------------------------------------------------
(* Strings that the code builds or parses are sequences of characters *)

LinkPool ==
    { [id |-> <<"a","r","t">>, title |-> "The Art"],
      [id |-> <<"w","o","r","k">>, title |-> "Our Work"] }

RECURSIVE SeqsUpTo(_, _)
SeqsUpTo(S, n) ==
    IF n = 0 THEN {<<>>}
    ELSE LET shorter == SeqsUpTo(S, n - 1)
         IN shorter \cup { Append(s, x) : s \in shorter, x \in S }

NavLinkLists == SeqsUpTo(LinkPool, MaxLinks)

---------------------------------------------------------------------------
(* App *)

\* Hero placed before Navbar
AppHeroFirst ==
    << "Hero", "Navbar", "Cocktails", "About", "Art", "Menu", "Contact",
       "div.h-dvh.bg-black" >>

App ==
    << "Navbar", "Hero", "Cocktails", "About", "Art", "Menu", "Contact",
       "div.h-dvh.bg-black" >>

InTree(name) == \E i \in 1..Len(appTree) : appTree[i] = name

---------------------------------------------------------------------------
(* Navbar: markup *)

Href(link) == <<"#">> \o link.id

ListItem(link) == [key |-> link.id, href |-> Href(link), text |-> link.title]

\* a map that walks the list from the end
RenderLinksReversed(links) ==
    [i \in 1..Len(links) |-> ListItem(links[Len(links) + 1 - i])]

RenderLinks(links) == [i \in 1..Len(links) |-> ListItem(links[i])]

---------------------------------------------------------------------------
(* Navbar: the background tween *)

HexDigits == <<"0","1","2","3","4","5","6","7","8","9","a","b","c","d","e","f">>

HexVal(c) == (CHOOSE i \in 1..Len(HexDigits) : HexDigits[i] = c) - 1

HexByte(s, i) == 16 * HexVal(s[i]) + HexVal(s[i + 1])

\* gsap.utils.splitColor: "transparent" is rgba(0,0,0,0), "#rrggbbaa" is read by bytes
SplitColor(c) ==
    IF c = <<"transparent">> THEN <<0, 0, 0, 0>>
    ELSE <<HexByte(c, 2), HexByte(c, 4), HexByte(c, 6), HexByte(c, 8)>>

NavFromVars == [backgroundColor |-> <<"transparent">>]

NavToVars ==
    [backgroundColor |-> <<"#","0","0","0","0","0","0","5","0">>,
     backgroundFilter |-> "blur(10px)"]

\* the properties a CSSStyleDeclaration of <nav> has, among those the model follows
StyleProps == {"backgroundColor", "backdropFilter"}

\* GSAP's CSSPlugin animates a property only when the element's style has it
AnimatedProps(toVars) == DOMAIN toVars \cap StyleProps

NavTimeline(scrolled) ==
    [trigger |-> "nav", start |-> "bottom top",
     tweens |-> << [target |-> "nav", from |-> NavFromVars, to |-> NavToVars,
                    duration |-> NavDuration, ease |-> "power1.inOut"] >>,
     status |-> IF scrolled THEN "playing" ELSE "idle",
     frame |-> 0]

\* ScrollTrigger start 'bottom top': the bottom of <nav> has reached the viewport top
NavTriggered(y) == y >= NavHeight

\* power1.inOut at frame k of n, as a fraction <<numerator, denominator>>
Power1InOut(k, n) ==
    IF 2 * k < n THEN <<2 * k * k, n * n>>
    ELSE <<n * n - 2 * (n - k) * (n - k), n * n>>

Lerp(a, b, e) == a + ((b - a) * e[1]) \div e[2]

TweenColor(from, to, k, n) ==
    LET e == Power1InOut(k, n)
    IN [i \in 1..4 |-> Lerp(SplitColor(from)[i], SplitColor(to)[i], e)]

InitialNavStyle == [backgroundColor |-> <<0, 0, 0, 0>>, backdropFilter |-> "none"]

\* the inline style of <nav> when the tween `tw` is rendered at frame k of n
RenderNavTween(style, tw, k, n) ==
    [p \in DOMAIN style |->
        IF p \notin AnimatedProps(tw.to) THEN style[p]
        ELSE IF p = "backgroundColor"
            THEN TweenColor(tw.from.backgroundColor, tw.to.backgroundColor, k, n)
        ELSE IF k = n THEN tw.to[p]
        ELSE style[p]]

\* a callback that runs again on every render and records one more timeline
NavbarRerenderTimelinesAgain(tls) == Append(tls, NavTimeline(NavTriggered(scrollY)))

\* useGSAP(callback) without dependencies: the callback is not run again on re-render
NavbarRerenderTimelines(tls) == tls

---------------------------------------------------------------------------
(* Hero: markup *)

MOJITO == <<"M","O","J","I","T","O">>

\* the markup with the .arrow <img> rendered
HeroMarkupWithArrow ==
    {"#hero", ".title", ".left-leaf", ".right-leaf", ".body", ".arrow", ".content",
     ".subtitle", ".view-cocktails", ".video", "video"}

\* selectors that match an element of Hero's JSX; the .arrow <img> is commented out
HeroMarkup ==
    {"#hero", ".title", ".left-leaf", ".right-leaf", ".body", ".content",
     ".subtitle", ".view-cocktails", ".video", "video"}

UnsplitTitle == [text |-> MOJITO, words |-> <<>>]

NoTitle == [text |-> <<>>, words |-> <<>>]

---------------------------------------------------------------------------
(* Hero: SplitText *)

RECURSIVE SplitWords(_, _, _)
SplitWords(s, cur, acc) ==
    IF s = <<>> THEN (IF cur = <<>> THEN acc ELSE Append(acc, cur))
    ELSE IF Head(s) = " "
        THEN SplitWords(Tail(s), <<>>, IF cur = <<>> THEN acc ELSE Append(acc, cur))
    ELSE SplitWords(Tail(s), Append(cur, Head(s)), acc)

\* a split that loses the last character of each word
SplitCharsShort(word) == [i \in 1..(Len(word) - 1) |-> [ch |-> word[i], classes |-> {}]]

SplitChars(word) == [i \in 1..Len(word) |-> [ch |-> word[i], classes |-> {}]]

\* new SplitText(".title", {type: "chars, words"}): a <div> per word, holding a <div> per character
SplitText(dom) ==
    LET ws == SplitWords(dom.text, <<>>, <<>>)
    IN [text |-> <<>>, words |-> [i \in 1..Len(ws) |-> SplitChars(ws[i])]]

\* heroSplit.chars.forEach((char) => char.classList.add(cls))
AddClassToChars(dom, cls) ==
    [dom EXCEPT !.words =
        [i \in 1..Len(dom.words) |->
            [j \in 1..Len(dom.words[i]) |->
                [dom.words[i][j] EXCEPT !.classes = @ \cup {cls}]]]]

RECURSIVE JoinWords(_)
JoinWords(ws) ==
    IF ws = <<>> THEN <<>>
    ELSE LET w == [j \in 1..Len(Head(ws)) |-> Head(ws)[j].ch]
         IN IF Len(ws) = 1 THEN w ELSE w \o <<" ">> \o JoinWords(Tail(ws))

\* the characters of the title element, in document order
TitleText(dom) == dom.text \o JoinWords(dom.words)

---------------------------------------------------------------------------
(* Hero: animations *)

\* a breakpoint that excludes 767px itself
IsMobileQueryStrict(w) == w < MobileMaxWidth

IsMobileQuery(w) == w <= MobileMaxWidth

EntranceTweens ==
    << [targets |-> "heroSplit.chars", yPercent |-> 100, opacity |-> 1, delay |-> 0],
       [targets |-> "paragraphSplit.lines", yPercent |-> 100, opacity |-> 0, delay |-> 1] >>

ParallaxTimeline ==
    [trigger |-> "#hero", start |-> "top top", end |-> "bottom top",
     scrub |-> TRUE, pin |-> FALSE,
     tweens |-> << [target |-> ".right-leaf", prop |-> "y", to |-> <<RightLeafY>>],
                   [target |-> ".left-leaf", prop |-> "y", to |-> <<LeftLeafY>>],
                   [target |-> ".arrow", prop |-> "y", to |-> <<ArrowY>>] >>]

StartValue(mobile) == IF mobile THEN "top 50%" ELSE "center 60%"

EndValue(mobile) == IF mobile THEN "120% top" ELSE "bottom top"

VideoTimeline(mobile) ==
    [trigger |-> "video", start |-> StartValue(mobile), end |-> EndValue(mobile),
     scrub |-> TRUE, pin |-> TRUE, tweens |-> <<>>]

\* a <video> element: duration is NaN (<<>>) until the metadata is known
NoVideo == [state |-> "absent", duration |-> <<>>, handler |-> FALSE]

NewVideo == [state |-> "loading", duration |-> <<>>, handler |-> FALSE]

\* tl.to(videoRef.current, {currentTime: videoRef.current.duration})
ScrubTween(ref, v) == [target |-> ref, prop |-> "currentTime", to |-> v.duration]

OnLoadedMetadata(tls, ref, v) ==
    [tls EXCEPT ![2].tweens = Append(@, ScrubTween(ref, v))]

---------------------------------------------------------------------------
(* Initial state: the page has loaded its configuration, nothing is rendered *)

Init ==
    /\ navLinks \in NavLinkLists
    /\ appTree = <<>>
    /\ navMounted = FALSE
    /\ navItems = <<>>
    /\ navRenders = 0
    /\ navTimelines = <<>>
    /\ navStyle = InitialNavStyle
    /\ scrollY = 0
    /\ heroPhase = "unmounted"
    /\ width \in Widths
    /\ isMobile = FALSE
    /\ closureIsMobile = FALSE
    /\ titleDom = NoTitle
    /\ heroTweens = <<>>
    /\ heroTimelines = <<>>
    /\ video = NoVideo
    /\ videoRef = "null"
    /\ orphans = 0
    /\ uncaught = FALSE

---------------------------------------------------------------------------
(* App *)

\* App is rendered (first render or a re-render): its children are laid out again;
\* a mounted Navbar is rendered again with it
AppRender ==
    /\ navMounted => navRenders < MaxRenders
    /\ appTree' = App
    /\ navItems' = IF navMounted THEN RenderLinks(navLinks) ELSE navItems
    /\ navRenders' = IF navMounted THEN navRenders + 1 ELSE navRenders
    /\ navTimelines' = IF navMounted THEN NavbarRerenderTimelines(navTimelines)
                       ELSE navTimelines
    /\ UNCHANGED <<navLinks, navMounted, navStyle, scrollY, width>>
    /\ UNCHANGED heroVars

\* the root is unmounted once its children are
AppUnmount ==
    /\ appTree # <<>>
    /\ ~navMounted
    /\ heroPhase = "unmounted"
    /\ appTree' = <<>>
    /\ UNCHANGED <<navLinks, scrollY, width>>
    /\ UNCHANGED navVars
    /\ UNCHANGED heroVars

---------------------------------------------------------------------------
(* Navbar *)

\* first render of Navbar and its useGSAP callback
NavbarMount ==
    /\ InTree("Navbar")
    /\ ~navMounted
    /\ navMounted' = TRUE
    /\ navItems' = RenderLinks(navLinks)
    /\ navRenders' = 1
    /\ LET tl == NavTimeline(NavTriggered(scrollY))
       IN /\ navTimelines' = <<tl>>
          /\ navStyle' = RenderNavTween(navStyle, tl.tweens[1], 0, TweenSteps)
    /\ UNCHANGED <<navLinks, appTree, scrollY, width>>
    /\ UNCHANGED heroVars

\* unmount: the gsap context is reverted, the element is removed
NavbarUnmount ==
    /\ navMounted
    /\ navMounted' = FALSE
    /\ navItems' = <<>>
    /\ navRenders' = 0
    /\ navTimelines' = <<>>
    /\ navStyle' = InitialNavStyle
    /\ UNCHANGED <<navLinks, appTree, scrollY, width>>
    /\ UNCHANGED heroVars

\* ScrollTrigger's update on a scroll event: an idle timeline plays once its start is passed
OnScroll(tl, y) ==
    IF tl.status = "idle" /\ NavTriggered(y) THEN [tl EXCEPT !.status = "playing"] ELSE tl

Scroll(y) ==
    /\ y # scrollY
    /\ scrollY' = y
    /\ navTimelines' = [i \in 1..Len(navTimelines) |-> OnScroll(navTimelines[i], y)]
    /\ UNCHANGED <<navLinks, appTree, navMounted, navItems, navRenders, navStyle, width>>
    /\ UNCHANGED heroVars

\* one animation frame of gsap's ticker
Tick ==
    /\ \E i \in 1..Len(navTimelines) : navTimelines[i].status = "playing"
    /\ LET i == CHOOSE j \in 1..Len(navTimelines) : navTimelines[j].status = "playing"
           tl == navTimelines[i]
           k == tl.frame + 1
       IN /\ navTimelines' =
                [navTimelines EXCEPT ![i] =
                    [tl EXCEPT !.frame = k,
                               !.status = IF k = TweenSteps THEN "done" ELSE "playing"]]
          /\ navStyle' = RenderNavTween(navStyle, tl.tweens[1], k, TweenSteps)
    /\ UNCHANGED <<navLinks, appTree, navMounted, navItems, navRenders, scrollY, width>>
    /\ UNCHANGED heroVars

---------------------------------------------------------------------------
(* Hero *)

\* Hero's JSX is rendered: the DOM exists, the <video> element starts to load its src
HeroRender ==
    /\ InTree("Hero")
    /\ heroPhase = "unmounted"
    /\ heroPhase' = "rendered"
    /\ isMobile' = IsMobileQuery(width)
    /\ closureIsMobile' = IsMobileQuery(width)
    /\ titleDom' = UnsplitTitle
    /\ video' = NewVideo
    /\ videoRef' = "video"
    /\ UNCHANGED <<navLinks, appTree, scrollY, width, heroTweens, heroTimelines,
                   orphans, uncaught>>
    /\ UNCHANGED navVars

\* a setup that attaches the currentTime tween at once, without waiting for the event
HeroSetupEager ==
    /\ heroPhase = "rendered"
    /\ heroPhase' = "ready"
    /\ titleDom' = AddClassToChars(SplitText(titleDom), "text-gradient")
    /\ heroTweens' = EntranceTweens
    /\ heroTimelines' =
          OnLoadedMetadata(<<ParallaxTimeline, VideoTimeline(closureIsMobile)>>,
                           videoRef, video)
    /\ video' = [video EXCEPT !.handler = TRUE]
    /\ UNCHANGED <<navLinks, appTree, scrollY, width, isMobile, closureIsMobile,
                   videoRef, orphans, uncaught>>
    /\ UNCHANGED navVars

\* the useGSAP callback of Hero
HeroSetup ==
    /\ heroPhase = "rendered"
    /\ heroPhase' = "ready"
    /\ titleDom' = AddClassToChars(SplitText(titleDom), "text-gradient")
    /\ heroTweens' = EntranceTweens
    /\ heroTimelines' = <<ParallaxTimeline, VideoTimeline(closureIsMobile)>>
    /\ video' = [video EXCEPT !.handler = TRUE]
    /\ UNCHANGED <<navLinks, appTree, scrollY, width, isMobile, closureIsMobile,
                   videoRef, orphans, uncaught>>
    /\ UNCHANGED navVars

\* the browser has read the metadata of the video: duration is known, the
\* loadedmetadata event is queued
MetadataLoaded(d) ==
    /\ video.state = "loading"
    /\ video' = [video EXCEPT !.state = "queued", !.duration = <<d>>]
    /\ UNCHANGED <<navLinks, appTree, scrollY, width, heroPhase, isMobile,
                   closureIsMobile, titleDom, heroTweens, heroTimelines, videoRef,
                   orphans, uncaught>>
    /\ UNCHANGED navVars

\* the loadedmetadata event is dispatched at the element of the mounted Hero
FireLoadedMetadata ==
    /\ video.state = "queued"
    /\ video' = [video EXCEPT !.state = "fired"]
    /\ heroTimelines' = IF video.handler
                        THEN OnLoadedMetadata(heroTimelines, videoRef, video)
                        ELSE heroTimelines
    /\ UNCHANGED <<navLinks, appTree, scrollY, width, heroPhase, isMobile,
                   closureIsMobile, titleDom, heroTweens, videoRef, orphans, uncaught>>
    /\ UNCHANGED navVars

\* the element keeps its handler when it is detached with the event still to come
LeavesOrphan(v) == v.handler /\ v.state \in {"loading", "queued"}

\* unmount: the gsap context is reverted (SplitText, tweens, timelines), the ref is
\* cleared, the DOM is removed
HeroUnmount ==
    /\ heroPhase = "ready"
    /\ LeavesOrphan(video) => orphans < MaxOrphans
    /\ heroPhase' = "unmounted"
    /\ titleDom' = NoTitle
    /\ heroTweens' = <<>>
    /\ heroTimelines' = <<>>
    /\ video' = NoVideo
    /\ videoRef' = "null"
    /\ orphans' = IF LeavesOrphan(video) THEN orphans + 1 ELSE orphans
    /\ UNCHANGED <<navLinks, appTree, scrollY, width, isMobile, closureIsMobile,
                   uncaught>>
    /\ UNCHANGED navVars

\* loadedmetadata is dispatched at a detached element: its handler reads
\* videoRef.current.duration of the unmounted Hero, whose ref is null
FireOrphanLoadedMetadata ==
    /\ orphans > 0
    /\ orphans' = orphans - 1
    /\ uncaught' = TRUE
    /\ UNCHANGED <<navLinks, appTree, scrollY, width, heroPhase, isMobile,
                   closureIsMobile, titleDom, heroTweens, heroTimelines, video, videoRef>>
    /\ UNCHANGED navVars

\* the viewport is resized: useMediaQuery re-renders a mounted Hero
Resize(w) ==
    /\ w # width
    /\ width' = w
    /\ isMobile' = IF heroPhase # "unmounted" THEN IsMobileQuery(w) ELSE isMobile
    /\ UNCHANGED <<navLinks, appTree, scrollY, heroPhase, closureIsMobile, titleDom,
                   heroTweens, heroTimelines, video, videoRef, orphans, uncaught>>
    /\ UNCHANGED navVars

---------------------------------------------------------------------------

Next ==
    \/ AppRender
    \/ AppUnmount
    \/ NavbarMount
    \/ NavbarUnmount
    \/ \E y \in 0..MaxScroll : Scroll(y)
    \/ Tick
    \/ HeroRender
    \/ HeroSetup
    \/ \E d \in Durations : MetadataLoaded(d)
    \/ FireLoadedMetadata
    \/ HeroUnmount
    \/ FireOrphanLoadedMetadata
    \/ \E w \in Widths : Resize(w)

Spec == Init /\ [][Next]_vars

---------------------------------------------------------------------------
(* Helpers of the properties *)

\* the tweens of Hero's timelines that animate `prop`
HeroTweensOn(prop) ==
    { tw \in UNION { { tl.tweens[j] : j \in 1..Len(tl.tweens) } :
                     tl \in { heroTimelines[i] : i \in 1..Len(heroTimelines) } } :
        tw.prop = prop }

TimelineTargets(tl) == [j \in 1..Len(tl.tweens) |-> tl.tweens[j].target]

---------------------------------------------------------------------------
(* C1: a mounted Navbar shows exactly one list item per navLinks entry, in the
   configured order; the i-th item has key link.id, href "#" followed by link.id
   and the text link.title of the i-th entry. *)
C1_OneLinkPerEntryInOrder ==
    navMounted =>
        /\ Len(navItems) = Len(navLinks)
        /\ \A i \in 1..Len(navLinks) :
            /\ navItems[i].key = navLinks[i].id
            /\ Head(navItems[i].href) = "#"
            /\ Tail(navItems[i].href) = navLinks[i].id
            /\ navItems[i].text = navLinks[i].title

\* a mounted Navbar with two different configured links
C1_Witness ==
    /\ navMounted
    /\ Len(navLinks) = 2
    /\ navLinks[1] # navLinks[2]
    /\ Len(navItems) = 2

(* C2: whenever a timeline of Hero holds the currentTime tween, the
   loadedmetadata event of the video has fired, and the tween's end value is the
   known duration of the video. *)
C2_ScrubTweenOnlyAfterMetadata ==
    \A tw \in HeroTweensOn("currentTime") :
        /\ video.state = "fired"
        /\ video.duration # <<>>
        /\ tw.to = video.duration

\* the currentTime tween is attached
C2_Witness ==
    /\ heroPhase = "ready"
    /\ HeroTweensOn("currentTime") # {}

(* C3: every render of App yields Navbar, Hero, Cocktails, About, Art, Menu,
   Contact and the full-height placeholder, in this order, each once. *)
C3_FixedSectionOrder ==
    appTree # <<>> =>
        /\ Len(appTree) = 8
        /\ appTree[1] = "Navbar"
        /\ appTree[2] = "Hero"
        /\ appTree[3] = "Cocktails"
        /\ appTree[4] = "About"
        /\ appTree[5] = "Art"
        /\ appTree[6] = "Menu"
        /\ appTree[7] = "Contact"
        /\ appTree[8] = "div.h-dvh.bg-black"

\* App has been rendered and its first two children are mounted
C3_Witness ==
    /\ appTree # <<>>
    /\ navMounted
    /\ heroPhase = "ready"

(* C4 as stated: after its setup Hero holds three scroll-scrubbed timelines, and
   every tween of them drives an element that Hero renders. *)
C4_ThreeTimelinesOnRenderedElements ==
    heroPhase = "ready" =>
        /\ Len(heroTimelines) = 3
        /\ \A i \in 1..Len(heroTimelines) :
            /\ heroTimelines[i].scrub
            /\ \A j \in 1..Len(heroTimelines[i].tweens) :
                heroTimelines[i].tweens[j].target \in HeroMarkup

(* C4 as amended: after its setup Hero holds two scroll-scrubbed timelines. The
   parallax timeline (trigger #hero) carries three tweens, on .right-leaf,
   .left-leaf and .arrow; the leaves are rendered, .arrow matches no element
   of Hero. The video timeline (trigger video) carries nothing but the
   currentTime tween, on the rendered video element. *)
C4_TwoTimelinesArrowUnrendered ==
    heroPhase = "ready" =>
        /\ Len(heroTimelines) = 2
        /\ \A i \in 1..2 : heroTimelines[i].scrub
        /\ heroTimelines[1].trigger = "#hero"
        /\ TimelineTargets(heroTimelines[1]) = <<".right-leaf", ".left-leaf", ".arrow">>
        /\ {".right-leaf", ".left-leaf"} \subseteq HeroMarkup
        /\ ".arrow" \notin HeroMarkup
        /\ heroTimelines[2].trigger = "video"
        /\ \A j \in 1..Len(heroTimelines[2].tweens) :
            /\ heroTimelines[2].tweens[j].prop = "currentTime"
            /\ heroTimelines[2].tweens[j].target = "video"
            /\ videoRef = "video"
            /\ "video" \in HeroMarkup

\* the setup has run and the video timeline carries its tween
C4_Witness ==
    /\ heroPhase = "ready"
    /\ Len(heroTimelines) = 2
    /\ Len(heroTimelines[2].tweens) = 1

(* C5: until the bottom of the nav has reached the top of the viewport the
   navbar is transparent without blur; once its tween has completed the navbar
   is rgba(0,0,0,0x50) and carries a 10px blur. *)
C5_BlurAfterNavTween ==
    \A i \in 1..Len(navTimelines) :
        /\ navTimelines[i].status = "idle" =>
            /\ navStyle.backgroundColor = <<0, 0, 0, 0>>
            /\ navStyle.backdropFilter = "none"
        /\ navTimelines[i].status = "done" =>
            /\ navStyle.backgroundColor = <<0, 0, 0, 80>>
            /\ navStyle.backdropFilter = "blur(10px)"

(* C6: the start/end pair of the video scroll trigger is chosen by the device
   class of the render that mounts Hero: isMobile is true exactly when the
   viewport is at most 767px wide at that render, and after the setup the pair is
   'top 50%' / '120% top' when it is true, 'center 60%' / 'bottom top' when it
   is false; no other pair is used. *)
C6_VideoTriggerByDeviceClass ==
    [][ /\ (heroPhase = "unmounted" /\ heroPhase' = "rendered")
            => (closureIsMobile' <=> width <= 767)
        /\ heroPhase' = "ready"
            => /\ closureIsMobile'
                   => /\ heroTimelines'[2].start = "top 50%"
                      /\ heroTimelines'[2].end = "120% top"
               /\ ~closureIsMobile'
                   => /\ heroTimelines'[2].start = "center 60%"
                      /\ heroTimelines'[2].end = "bottom top"
      ]_vars

\* Hero was set up on a viewport exactly 767px wide
C6_Witness ==
    /\ heroPhase = "ready"
    /\ width = 767
    /\ closureIsMobile
    /\ heroTimelines[2].start = "top 50%"

(* C7: while Hero is mounted, before and after SplitText has split the title
   and text-gradient has been added to each character, the characters of the
   title element in document order spell MOJITO. *)
C7_TitleSpellsMojito ==
    heroPhase # "unmounted" =>
        TitleText(titleDom) = <<"M", "O", "J", "I", "T", "O">>

\* the title is split into six characters, each with the gradient class
C7_Witness ==
    /\ heroPhase = "ready"
    /\ Len(titleDom.words) = 1
    /\ Len(titleDom.words[1]) = 6
    /\ \A j \in 1..6 : "text-gradient" \in titleDom.words[1][j].classes

(* C8: a mounted Navbar holds exactly one timeline with one fromTo tween on
   'nav', however often it has been rendered; an unmounted Navbar holds none. *)
C8_OneNavTimelinePerMount ==
    /\ navMounted =>
        /\ navRenders >= 1
        /\ Len(navTimelines) = 1
        /\ Len(navTimelines[1].tweens) = 1
        /\ navTimelines[1].tweens[1].target = "nav"
        /\ navTimelines[1].trigger = "nav"
    /\ ~navMounted => navTimelines = <<>>

\* a mounted Navbar that has been rendered again
C8_Witness ==
    /\ navMounted
    /\ navRenders >= 2
    /\ Len(navTimelines) = 1

(* C9: once the metadata of the video is loaded and its event has been
   dispatched, a Hero that is set up and mounted has the currentTime tween on
   its video timeline, whichever of the setup and the event came first. *)
C9_ScrubTweenAttachedOnceLoaded ==
    (heroPhase = "ready" /\ video.state = "fired") =>
        HeroTweensOn("currentTime") # {}

(* C10: the onloadedmetadata handler never runs while videoRef.current is null,
   and an unmounted Hero has no tween and no timeline. *)
C10_NoHandlerRunAfterUnmount ==
    /\ ~uncaught
    /\ heroPhase = "unmounted" => (heroTweens = <<>> /\ heroTimelines = <<>>)

(* C11: while Hero is set up and mounted, the start/end pair of the video scroll
   trigger is the pair of the current device class: 'top 50%' / '120% top' when
   the viewport is at most 767px wide, 'center 60%' / 'bottom top' otherwise,
   also after the width has crossed the breakpoint and Hero has rendered again. *)
C11_VideoTriggerFollowsDeviceClass ==
    heroPhase = "ready" =>
        /\ isMobile <=> width <= 767
        /\ isMobile
            => /\ heroTimelines[2].start = "top 50%"
               /\ heroTimelines[2].end = "120% top"
        /\ ~isMobile
            => /\ heroTimelines[2].start = "center 60%"
               /\ heroTimelines[2].end = "bottom top"

====
